---- MODULE Spec2Model ----
(***************************************************************************)
(* A model of the notebook cell transpiler (src/website/nb_transpiler.ts)  *)
(* and of Tensor.dot (src/tensor.ts).                                      *)
(*                                                                         *)
(* Text is a sequence of one-character strings.  A parse is modelled by    *)
(* laying out a concrete syntax tree over the text it spells: the tree's   *)
(* nodes get the [start, end) offsets the parser reports, and a text that  *)
(* no tree of the cell spells is a syntax error.                           *)
(***************************************************************************)
EXTENDS Integers, Sequences, FiniteSets, TLC

VARIABLES pc, cell, src, parsed, ast, index, pending, out,
          dotThis, dotX, dotResult, nEdits, other

vars == <<pc, cell, src, parsed, ast, index, pending, out,
          dotThis, dotX, dotResult, nEdits, other>>

tvars == <<pc, cell, src, parsed, ast, index, pending, out>>
dvars == <<dotThis, dotX, dotResult>>

\* ------------------------------------------------------------------ bounds
\* Largest number of statements of a cell, nested ones included.
MaxStmts == 2

\* ------------------------------------------------------------ sequences
RECURSIVE Flatten(_)
Flatten(ss) ==
    IF ss = <<>> THEN <<>>
    ELSE IF Len(ss) = 1 THEN ss[1]
    ELSE LET mid == Len(ss) \div 2 IN
         Flatten(SubSeq(ss, 1, mid)) \o Flatten(SubSeq(ss, mid + 1, Len(ss)))

Last(s) == s[Len(s)]

IsPrefix(p, s) == Len(p) <= Len(s) /\ SubSeq(s, 1, Len(p)) = p

IsSuffix(p, s) == Len(p) <= Len(s) /\ SubSeq(s, Len(s) - Len(p) + 1, Len(s)) = p

Contains(s, p) == \E i \in 1..(Len(s) - Len(p) + 1) : SubSeq(s, i, i + Len(p) - 1) = p

\* ------------------------------------------------------------- constants
importFn == <<"_", "_", "i", "m", "p", "o", "r", "t">>
globalVar == <<"_", "_", "g", "l", "o", "b", "a", "l">>

\* `(async (${globalVar}, ${importFn}, console) => {\n`, split where the
\* parser puts the arrow function and its body.
WrapOpen == <<"(">>
WrapHead == <<"a", "s", "y", "n", "c", " ", "(">> \o globalVar \o <<",", " ">>
            \o importFn \o <<",", " ", "c", "o", "n", "s", "o", "l", "e", ")",
                             " ", "=", ">", " ">>
WrapClose == <<")">>
NL == <<"\n">>

\* ------------------------------------------------- concrete syntax trees
\* A tree is [type, kind, name, parts]; a part is a piece of text or a child
\* under the field name (role) the parser stores it in.
T(txt) == [role |-> "", text |-> txt, sub |-> <<>>]
N(role, s) == [role |-> role, text |-> <<>>, sub |-> <<s>>]
Syn(type, kind, name, parts) ==
    [type |-> type, kind |-> kind, name |-> name, parts |-> parts]

RECURSIVE TextOf(_)
TextOf(s) ==
    Flatten([i \in 1..Len(s.parts) |->
        IF s.parts[i].sub = <<>> THEN s.parts[i].text
        ELSE TextOf(s.parts[i].sub[1])])

\* The parser's nodes: {type, start, end, ...fields}; kids holds the child
\* nodes in source order, each under its field name.
RECURSIVE Layout(_, _), LayoutParts(_, _)
LayoutParts(parts, at) ==
    IF parts = <<>> THEN <<>>
    ELSE LET p == Head(parts) IN
         IF p.sub = <<>> THEN LayoutParts(Tail(parts), at + Len(p.text))
         ELSE LET n == Layout(p.sub[1], at) IN
              <<[role |-> p.role, node |-> n]>> \o LayoutParts(Tail(parts), n.end)

Layout(s, at) ==
    [type |-> s.type, kind |-> s.kind, name |-> s.name,
     start |-> at, end |-> at + Len(TextOf(s)),
     kids |-> LayoutParts(s.parts, at)]

Field(node, role) ==
    LET ks == SelectSeq(node.kids, LAMBDA k : k.role = role)
    IN  [i \in 1..Len(ks) |-> ks[i].node]

NodeId(node) == <<node.type, node.start, node.end>>

\* --------------------------------------------------------- the grammar
Ident(name) == Syn("Identifier", "", name, <<T(name)>>)
Num == Syn("Literal", "", <<>>, <<T(<<"1">>)>>)
ModuleM == Syn("Literal", "", <<>>, <<T(<<"\"", "m", "\"">>)>>)

Declarator(id, init) ==
    Syn("VariableDeclarator", "", <<>>,
        <<N("id", id)>> \o
        (IF init = <<>> THEN <<>> ELSE <<T(<<"=">>), N("init", init[1])>>))

DeclaratorSp(id, init) ==
    Syn("VariableDeclarator", "", <<>>,
        <<N("id", id), T(<<" ", "=", " ">>), N("init", init)>>)

RECURSIVE Commas(_)
Commas(nodes) ==
    IF Len(nodes) <= 1 THEN nodes
    ELSE <<Head(nodes), T(<<",">>)>> \o Commas(Tail(nodes))

KindText(kind) ==
    CASE kind = "var" -> <<"v", "a", "r">>
      [] kind = "let" -> <<"l", "e", "t">>
      [] kind = "const" -> <<"c", "o", "n", "s", "t">>

\* kind, the text between the keyword and the first declarator, declarators,
\* and whether a semicolon ends the declaration.
VarDecl(kind, sep, decls, semi) ==
    Syn("VariableDeclaration", kind, <<>>,
        <<T(KindText(kind) \o sep)>>
        \o Commas([i \in 1..Len(decls) |-> N("declarations", decls[i])])
        \o (IF semi THEN <<T(<<";">>)>> ELSE <<>>))

ArrayPat(elems) ==
    Syn("ArrayPattern", "", <<>>,
        <<T(<<"[">>)>> \o Commas([i \in 1..Len(elems) |-> N("elements", elems[i])])
        \o <<T(<<"]">>)>>)

PropShort(name) == Syn("Property", "shorthand", name, <<N("value", Ident(name))>>)
PropKV(key, value) ==
    Syn("Property", "init", key, <<N("key", Ident(key)), T(<<":">>), N("value", value)>>)

ObjectPat(props) ==
    Syn("ObjectPattern", "", <<>>,
        <<T(<<"{">>)>> \o Commas([i \in 1..Len(props) |-> N("properties", props[i])])
        \o <<T(<<"}">>)>>)

ObjectExpr(props) ==
    Syn("ObjectExpression", "", <<>>,
        <<T(<<"{">>)>> \o Commas([i \in 1..Len(props) |-> N("properties", props[i])])
        \o <<T(<<"}">>)>>)

Block(open, stmts, close) ==
    Syn("BlockStatement", "", <<>>,
        <<T(open)>> \o stmts \o <<T(close)>>)

ExprStmt(pre, e, post) ==
    Syn("ExpressionStatement", "", <<>>, <<T(pre), N("expression", e), T(post)>>)

\* await __import("m")
AwaitImport ==
    Syn("AwaitExpression", "", <<>>,
        <<T(<<"a", "w", "a", "i", "t", " ">>),
          N("argument", Syn("CallExpression", "", <<>>,
              <<N("callee", Ident(importFn)), T(<<"(">>),
                N("arguments", ModuleM), T(<<")">>)>>))>>)

\* --- import declarations
ImportKw == <<"i", "m", "p", "o", "r", "t", " ">>
FromKw == <<"f", "r", "o", "m", " ">>
AsKw == <<" ", "a", "s", " ">>

ImportDecl(parts, semi) ==
    Syn("ImportDeclaration", "", <<>>,
        <<T(ImportKw)>> \o parts \o <<N("source", ModuleM)>>
        \o (IF semi THEN <<T(<<";">>)>> ELSE <<>>))

DefaultSpec(local) ==
    Syn("ImportDefaultSpecifier", "", local, <<N("local", Ident(local))>>)
NamedSpec(name) ==
    \* `a`: imported and local are the same identifier
    Syn("ImportSpecifier", "same", name, <<N("imported", Ident(name))>>)
AliasSpec(imported, local) ==
    Syn("ImportSpecifier", "alias", local,
        <<N("imported", Ident(imported)), T(AsKw), N("local", Ident(local))>>)
NamespaceSpec(local) ==
    Syn("ImportNamespaceSpecifier", "", local,
        <<T(<<"*", " ", "a", "s", " ">>), N("local", Ident(local))>>)

\* --- function and class bodies: `{import "m";var y=1;}`
InnerBody ==
    Block(<<"{">>,
          <<N("body", ImportDecl(<<>>, TRUE)),
            N("body", VarDecl("var", <<" ">>, <<Declarator(Ident(<<"y">>), <<Num>>)>>, TRUE))>>,
          <<"}">>)

FunctionKw == <<"f", "u", "n", "c", "t", "i", "o", "n">>

FuncDecl ==
    Syn("FunctionDeclaration", "", <<"f">>,
        <<T(FunctionKw \o <<" ">>), N("id", Ident(<<"f">>)), T(<<"(", ")">>),
          N("body", InnerBody)>>)

FuncExpr == Syn("FunctionExpression", "", <<>>,
                <<T(FunctionKw \o <<"(", ")">>), N("body", InnerBody)>>)

MethodFn == Syn("FunctionExpression", "", <<>>, <<T(<<"(", ")">>), N("body", InnerBody)>>)

ArrowFn(head, body) ==
    Syn("ArrowFunctionExpression", "", <<>>, <<T(head), N("body", body)>>)

ClassDecl ==
    Syn("ClassDeclaration", "", <<"A">>,
        <<T(<<"c", "l", "a", "s", "s", " ">>), N("id", Ident(<<"A">>)),
          N("body", Syn("ClassBody", "", <<>>,
              <<T(<<"{">>),
                N("body", Syn("MethodDefinition", "method", <<"m">>,
                    <<N("key", Ident(<<"m">>)), N("value", MethodFn)>>)),
                T(<<"}">>)>>))>>)

ForLet ==
    Syn("ForStatement", "", <<>>,
        <<T(<<"f", "o", "r", "(">>),
          N("init", VarDecl("let", <<" ">>, <<Declarator(Ident(<<"i">>), <<Num>>)>>, FALSE)),
          T(<<";", ";", ")">>),
          N("body", Syn("EmptyStatement", "", <<>>, <<T(<<";">>)>>))>>)

\* The right-hand side the import pass writes: {_:await __import("m")}
ImportInit == ObjectExpr(<<PropKV(<<"_">>, AwaitImport)>>)

\* ------------------------------------------------------------ the cells
\* The statements a cell is made of, by name, each with the text it spells.
Leaves ==
    {"varInit", "letBare", "constInit", "varArr", "letObj", "letTwo",
     "importBare", "importBareSemi", "importMixed", "importNs",
     "func", "class", "exprId", "exprFn", "exprArrow", "forLet"}

Containers == {"block", "if"}

LeafSyn(k) ==
    CASE k = "varInit" ->    \* var x=1;
           VarDecl("var", <<" ">>, <<Declarator(Ident(<<"x">>), <<Num>>)>>, TRUE)
      [] k = "letBare" ->    \* let x;
           VarDecl("let", <<" ">>, <<Declarator(Ident(<<"x">>), <<>>)>>, TRUE)
      [] k = "constInit" ->  \* const x=1;
           VarDecl("const", <<" ">>, <<Declarator(Ident(<<"x">>), <<Num>>)>>, TRUE)
      [] k = "varArr" ->     \* var[x]=y;
           VarDecl("var", <<>>,
                   <<Declarator(ArrayPat(<<Ident(<<"x">>)>>), <<Ident(<<"y">>)>>)>>, TRUE)
      [] k = "letObj" ->     \* let{x}=y;
           VarDecl("let", <<>>,
                   <<Declarator(ObjectPat(<<PropShort(<<"x">>)>>), <<Ident(<<"y">>)>>)>>, TRUE)
      [] k = "letTwo" ->     \* let\nx,z=1;
           VarDecl("let", NL,
                   <<Declarator(Ident(<<"x">>), <<>>), Declarator(Ident(<<"z">>), <<Num>>)>>,
                   TRUE)
      [] k = "importBare" ->      \* import "m"
           ImportDecl(<<>>, FALSE)
      [] k = "importBareSemi" ->  \* import "m";
           ImportDecl(<<>>, TRUE)
      [] k = "importMixed" ->     \* import d,{a,b as c} from "m";
           ImportDecl(<<N("specifiers", DefaultSpec(<<"d">>)), T(<<",", "{">>),
                        N("specifiers", NamedSpec(<<"a">>)), T(<<",">>),
                        N("specifiers", AliasSpec(<<"b">>, <<"c">>)),
                        T(<<"}", " ">> \o FromKw)>>, TRUE)
      [] k = "importNs" ->        \* import * as n from "m"
           ImportDecl(<<N("specifiers", NamespaceSpec(<<"n">>)), T(<<" ">> \o FromKw)>>, FALSE)
      [] k = "func" -> FuncDecl           \* function f(){import "m";var y=1;}
      [] k = "class" -> ClassDecl         \* class A{m(){import "m";var y=1;}}
      [] k = "exprId" -> ExprStmt(<<>>, Ident(<<"x">>), <<>>)        \* x
      [] k = "exprFn" -> ExprStmt(<<"(">>, FuncExpr, <<")", ";">>)   \* (function(){...});
      [] k = "exprArrow" ->                                          \* ()=>{...};
           ExprStmt(<<>>, ArrowFn(<<"(", ")", "=", ">">>, InnerBody), <<";">>)
      [] k = "forLet" -> ForLet           \* for(let i=0;;);
      \* what the import pass leaves of the four import declarations
      [] k \in {"await", "awaitEat"} ->   \* await __import("m");
           ExprStmt(<<>>, AwaitImport, <<";">>)
      [] k = "varMixed" ->  \* var {_:{default:d},_:{a},_:{b:c}} = {_:await __import("m")};
           VarDecl("var", <<" ">>,
                   <<DeclaratorSp(
                       ObjectPat(<<
                         PropKV(<<"_">>, ObjectPat(<<PropKV(<<"d", "e", "f", "a", "u", "l", "t">>,
                                                           Ident(<<"d">>))>>)),
                         PropKV(<<"_">>, ObjectPat(<<PropShort(<<"a">>)>>)),
                         PropKV(<<"_">>, ObjectPat(<<PropKV(<<"b">>, Ident(<<"c">>))>>))>>),
                       ImportInit)>>, TRUE)
      [] k = "varNsEat" ->  \* var {_:n} = {_:await __import("m")};
           VarDecl("var", <<" ">>,
                   <<DeclaratorSp(ObjectPat(<<PropKV(<<"_">>, Ident(<<"n">>))>>), ImportInit)>>,
                   TRUE)

\* A statement of a cell: a leaf, or a container around one statement.
Leaf(k) == [k |-> k, sub |-> <<>>]

\* The statement's last character position was the end of an import
\* declaration without a semicolon: SourceEditor.replace(src.end, node.end)
\* wrote over the character that followed it.
Eats(d) == d.k \in {"awaitEat", "varNsEat"}

RECURSIVE StmtSyn(_)
StmtSyn(d) ==
    CASE d.k = "block" ->   \* {s}
           Block(<<"{">>, <<N("body", StmtSyn(d.sub[1]))>>, <<"}">>)
      [] d.k = "if" ->      \* if(x){s}
           Syn("IfStatement", "", <<>>,
               <<T(<<"i", "f", "(">>), N("test", Ident(<<"x">>)), T(<<")">>),
                 N("consequent", Block(<<"{">>, <<N("body", StmtSyn(d.sub[1]))>>, <<"}">>))>>)
      [] OTHER -> LeafSyn(d.k)

\* A container's closing brace cannot be the character an import wrote over.
RECURSIVE ValidStmt(_)
ValidStmt(d) ==
    IF d.k \in Containers THEN ~Eats(d.sub[1]) /\ ValidStmt(d.sub[1]) ELSE TRUE

\* The cell's text as the user wrote it: its statements, one per line.
RECURSIVE JoinLines(_)
JoinLines(ts) ==
    IF ts = <<>> THEN <<>>
    ELSE IF Len(ts) = 1 THEN ts[1]
    ELSE ts[1] \o NL \o JoinLines(Tail(ts))

CellText(c) == JoinLines([i \in 1..Len(c) |-> TextOf(StmtSyn(c[i]))])

\* The wrapper's body: `{\n` statements, each followed by a newline, `}`.
BodySyn(c) ==
    Block(<<"{", "\n">>,
          Flatten([i \in 1..Len(c) |->
              <<N("body", StmtSyn(c[i])), T(IF Eats(c[i]) THEN <<>> ELSE NL)>>])
          \o (IF c = <<>> THEN <<T(NL)>> ELSE <<>>),
          <<"}">>)

ProgramSyn(c) ==
    Syn("Program", "", <<>>,
        <<N("body", ExprStmt(WrapOpen, ArrowFn(WrapHead, BodySyn(c)), WrapClose))>>)

RECURSIVE StmtsOfSize(_)
StmtsOfSize(n) ==
    IF n = 1 THEN {Leaf(k) : k \in Leaves}
    ELSE {[k |-> c, sub |-> <<s>>] : c \in Containers, s \in StmtsOfSize(n - 1)}

RECURSIVE CellsOfSize(_)
CellsOfSize(n) ==
    IF n = 0 THEN {<<>>}
    ELSE UNION {{<<s>> \o c : s \in StmtsOfSize(k), c \in CellsOfSize(n - k)} : k \in 1..n}

Cells == UNION {CellsOfSize(n) : n \in 0..MaxStmts}

\* The cell the import pass turns c into.
RECURSIVE ImportRewritten(_)
ImportRewritten(d) ==
    CASE d.k \in Containers -> [d EXCEPT !.sub = <<ImportRewritten(d.sub[1])>>]
      [] d.k = "importBare" -> Leaf("awaitEat")
      [] d.k = "importBareSemi" -> Leaf("await")
      [] d.k = "importMixed" -> Leaf("varMixed")
      [] d.k = "importNs" -> Leaf("varNsEat")
      [] OTHER -> d

\* acorn.parse of the wrapped text of cell c, before or after the import
\* pass: the tree that spells the text, or a SyntaxError when none does.
Grammar(c) ==
    {g \in {c, [i \in 1..Len(c) |-> ImportRewritten(c[i])]} :
        \A i \in 1..Len(g) : ValidStmt(g[i])}

NoNode == [type |-> "none", kind |-> "", name |-> <<>>, start |-> 0, end |-> 0, kids |-> <<>>]

parseAsyncWrapped(text, c) ==
    LET spelt == {g \in Grammar(c) : TextOf(ProgramSyn(g)) = text} IN
    IF spelt = {} THEN [ok |-> FALSE, root |-> NoNode, body |-> NoNode]
    ELSE LET root == Layout(ProgramSyn(CHOOSE g \in spelt : TRUE), 0)
             fnExpr == Field(Field(root, "body")[1], "expression")[1]
         IN  [ok |-> TRUE, root |-> root, body |-> Field(fnExpr, "body")[1]]

\* ---------------------------------------------------- the source editor
\* SourceChar.pos of a character that has no position.
Null == -1

\* A SourceChar; `file` is null throughout and left out.
SourceChar(char, pos) == [char |-> char, pos |-> pos]

\* convert() of a string: every character is tagged with its position in
\* that string.
convert(source) == [i \in 1..Len(source) |-> SourceChar(source[i], i - 1)]

\* EditNode: `current` after each of its methods.
EditNodePrepend(current, source) == convert(source) \o current
EditNodeAppend(current, source) == current \o convert(source)
EditNodeReplace(source) == convert(source)
EditNodeClear == <<>>

\* SourceEditor: the index is the sequence of the EditNodes' `current`.
GetSource(ix) == Flatten(ix)

SetSource(source) ==
    IF Len(source) > 0 THEN [i \in 1..Len(source) |-> <<source[i]>>]
    ELSE << <<>> >>

NewSourceEditor(source) == SetSource(convert(source))

text(ix) == LET s == GetSource(ix) IN [i \in 1..Len(s) |-> s[i].char]

\* stratify that does not rebuild the index.
stratify_KeepIndex(ix) == ix

stratify(ix) == SetSource(GetSource(ix))

\* Offsets are the parser's, from 0; index[k] of the code is ix[k + 1].
SourceEditorReplace(ix, start, end, str) ==
    [i \in 1..Len(ix) |->
        IF i = start + 1 THEN EditNodeReplace(str)
        ELSE IF start + 1 < i /\ i < end + 1 THEN EditNodeClear
        ELSE ix[i]]

SourceEditorPrepend(ix, start, str) ==
    [ix EXCEPT ![start + 1] = EditNodePrepend(@, str)]

SourceEditorAppend(ix, end, str) ==
    [ix EXCEPT ![end] = EditNodeAppend(@, str)]

\* One call of the editor, as the visitors make it.
ReplaceCall(start, end, str) == [op |-> "replace", a |-> start, b |-> end, str |-> str]
PrependCall(node, str) == [op |-> "prepend", a |-> node.start, b |-> node.end, str |-> str]
AppendCall(node, str) == [op |-> "append", a |-> node.start, b |-> node.end, str |-> str]

\* The EditNode the call reads first: index[start] or index[end - 1].
Addressed(e) == IF e.op = "append" THEN e.b - 1 ELSE e.a

ApplyCall(ix, e) ==
    CASE e.op = "replace" -> SourceEditorReplace(ix, e.a, e.b, e.str)
      [] e.op = "prepend" -> SourceEditorPrepend(ix, e.a, e.str)
      [] e.op = "append" -> SourceEditorAppend(ix, e.b, e.str)

\* ------------------------------------------------------------ the walker
\* The state the visitors share: the editor calls made so far, in order,
\* state.translatingVariableDeclaration, state.body, and whether every
\* assert() passed.  With it travel the `ancestors` array of
\* walkRecursiveWithAncestors (stack) and the record of every wrapped visitor
\* invocation: the node, the kind it was dispatched under and the chain the
\* visitor was given (visits).
WalkState(body) ==
    [calls |-> <<>>, translating |-> FALSE, body |-> NodeId(body), ok |-> TRUE,
     stack |-> <<>>, visits |-> <<>>]

Call(st, e) == [st EXCEPT !.calls = Append(@, e)]

Calls(st, es) == [st EXCEPT !.calls = @ \o es]

\* walk.base: the children each node kind hands to c(), in order, each with
\* the override kind it is handed under.
Under(nodes, ov) == [i \in 1..Len(nodes) |-> [node |-> nodes[i], ov |-> ov]]

WalkKids(node) ==
    CASE node.type \in {"BlockStatement", "Program"} -> Under(Field(node, "body"), "Statement")
      [] node.type = "ExpressionStatement" -> Under(Field(node, "expression"), "Expression")
      [] node.type = "IfStatement" ->
           Under(Field(node, "test"), "Expression") \o Under(Field(node, "consequent"), "Statement")
      [] node.type = "ForStatement" ->
           Under(Field(node, "init"), "ForInit") \o Under(Field(node, "body"), "Statement")
      [] node.type = "VariableDeclaration" -> Under(Field(node, "declarations"), "")
      [] node.type = "VariableDeclarator" ->
           Under(Field(node, "id"), "Pattern") \o Under(Field(node, "init"), "Expression")
      [] node.type \in {"FunctionDeclaration", "FunctionExpression", "ArrowFunctionExpression"} ->
           Under(Field(node, "id"), "Pattern") \o Under(Field(node, "body"), "ScopeBody")
      [] node.type = "ClassDeclaration" ->
           Under(Field(node, "id"), "Pattern")
           \o Under(Field(Field(node, "body")[1], "body"), "")
      [] node.type = "MethodDefinition" -> Under(Field(node, "value"), "Expression")
      [] node.type = "ObjectPattern" ->
           LET ps == Field(node, "properties") IN
           [i \in 1..Len(ps) |-> [node |-> Field(ps[i], "value")[1], ov |-> "Pattern"]]
      [] node.type = "ArrayPattern" -> Under(Field(node, "elements"), "Pattern")
      [] node.type = "ObjectExpression" -> Under(Field(node, "properties"), "")
      [] node.type = "Property" -> Under(Field(node, "value"), "Expression")
      [] node.type = "AwaitExpression" -> Under(Field(node, "argument"), "Expression")
      [] node.type = "CallExpression" ->
           Under(Field(node, "callee"), "Expression") \o Under(Field(node, "arguments"), "Expression")
      [] node.type = "ImportDeclaration" ->
           Under(Field(node, "specifiers"), "") \o Under(Field(node, "source"), "Expression")
      [] OTHER -> <<>>

\* The kind walk.base's handler of an override kind hands the node on under;
\* "stop" when it ignores the node.
Redispatch(node, ov) ==
    CASE ov = "Pattern" -> IF node.type = "Identifier" THEN "VariablePattern" ELSE ""
      [] ov = "VariablePattern" -> "stop"
      [] ov = "ForInit" -> IF node.type = "VariableDeclaration" THEN "" ELSE "Expression"
      [] ov = "ScopeBody" -> "Statement"
      [] OTHER -> ""

\* isNew pushing every node it is asked about.
isNew_Always(node, ancestors) == TRUE

\* wrappedVisitors: a node is new unless it is the one on top of the stack.
isNew(node, ancestors) == ancestors = <<>> \/ NodeId(node) # Last(ancestors)

\* wrappedVisitors: the ancestor chain the visitor of `node` is given.
AncestorsAt(node, ancestors) ==
    IF isNew(node, ancestors) THEN Append(ancestors, NodeId(node)) ELSE ancestors

\* wrappedVisitors: note the invocation; the push has been made.
Visit(node, ov, st, chain) ==
    [st EXCEPT !.stack = chain,
               !.visits = Append(@, [node |-> NodeId(node), ov |-> ov, chain |-> chain])]

\* wrappedVisitors: if (isNew) ancestors.pop().
PopAncestors(new, st) ==
    IF new THEN [st EXCEPT !.stack = SubSeq(@, 1, Len(@) - 1)] ELSE st

noop(node, st) == st

ImportSpecifierLocal(node) ==
    IF Field(node, "local") = <<>> THEN Field(node, "imported")[1] ELSE Field(node, "local")[1]

RECURSIVE c(_, _, _, _, _), cEach(_, _, _, _), walkBase(_, _, _, _)

cEach(items, st, ancestors, pass) ==
    IF items = <<>> THEN st
    ELSE cEach(Tail(items),
               c(Head(items).node, Head(items).ov, st, ancestors, pass),
               ancestors, pass)

walkBase(node, st, ancestors, pass) == cEach(WalkKids(node), st, ancestors, pass)

\* --- importVisitors
importVisitors_ImportDeclaration(node, st) ==
    LET spec == Field(node, "specifiers")
        source == Field(node, "source")[1]
        n == Len(spec)
    IN  IF n > 0
        THEN Calls(st,
               <<ReplaceCall(node.start, spec[1].start, <<"v", "a", "r", " ", "{">>)>>
               \o [i \in 1..(n - 1) |-> ReplaceCall(spec[i].end, spec[i + 1].start, <<",">>)]
               \o <<ReplaceCall(spec[n].end, source.start,
                                <<"}", " ", "=", " ", "{", "_", ":", "a", "w", "a", "i", "t", " ">>
                                \o importFn \o <<"(">>),
                    ReplaceCall(source.end, node.end, <<")", "}", ";">>)>>)
        ELSE Calls(st,
               <<ReplaceCall(node.start, source.start,
                             <<"a", "w", "a", "i", "t", " ">> \o importFn \o <<"(">>),
                 ReplaceCall(source.end, node.end, <<")", ";">>)>>)

importVisitors_ImportSpecifier(node, st) ==
    LET imported == Field(node, "imported")[1]
        local == ImportSpecifierLocal(node)
    IN  Calls(st,
          <<PrependCall(node, <<"_", ":", "{">>)>>
          \o (IF local.start > imported.end
              THEN <<ReplaceCall(imported.end, local.start, <<":">>)>> ELSE <<>>)
          \o <<AppendCall(node, <<"}">>)>>)

importVisitors_ImportDefaultSpecifier(node, st) ==
    LET local == Field(node, "local")[1] IN
    Calls(st, <<PrependCall(local, <<"_", ":", "{", "d", "e", "f", "a", "u", "l", "t", ":">>),
                AppendCall(local, <<"}">>)>>)

importVisitors_ImportNamespaceSpecifier(node, st) ==
    Call(st, ReplaceCall(node.start, Field(node, "local")[1].start, <<"_", ":">>))

\* ImportPassPrunes without the FunctionDeclaration entry.
ImportPassPrunes_Declarations(type) ==
    type \in {"FunctionExpression", "ArrowFunctionExpression", "MethodDefinition"}

\* Do not recurse into functions etc.
ImportPassPrunes(type) ==
    type \in {"FunctionDeclaration", "FunctionExpression", "ArrowFunctionExpression",
              "MethodDefinition"}

importVisitors(node, st, ancestors) ==
    CASE node.type = "ImportDeclaration" ->
           walkBase(node, importVisitors_ImportDeclaration(node, st), ancestors, "import")
      [] node.type = "ImportSpecifier" -> importVisitors_ImportSpecifier(node, st)
      [] node.type = "ImportDefaultSpecifier" -> importVisitors_ImportDefaultSpecifier(node, st)
      [] node.type = "ImportNamespaceSpecifier" -> importVisitors_ImportNamespaceSpecifier(node, st)
      [] ImportPassPrunes(node.type) -> noop(node, st)
      [] OTHER -> walkBase(node, st, ancestors, "import")

\* --- evalScopeVisitors
GlobalDot == globalVar \o <<".">>

\* Classes are block-scoped: no transform when the class definition is not
\* at top level.
ClassAtTopLevel(ancestors, st) == ancestors[Len(ancestors) - 1] = st.body

evalScopeVisitors_ClassDeclaration(node, st0, ancestors) ==
    LET st == walkBase(node, st0, ancestors, "scope") IN
    IF Len(ancestors) < 2 THEN [st EXCEPT !.ok = FALSE]
    ELSE IF ~ClassAtTopLevel(ancestors, st) THEN st
    ELSE Calls(st, <<PrependCall(node, GlobalDot \o node.name \o <<"=">>),
                     AppendCall(node, <<")", ";">>)>>)

\* FunctionDeclaration: noop, as in importVisitors.
evalScopeVisitors_FunctionDeclaration_Noop(node, st) == st

evalScopeVisitors_FunctionDeclaration(node, st) ==
    Calls(st, <<PrependCall(node, <<"v", "o", "i", "d", " ", "(">> \o GlobalDot
                                  \o node.name \o <<"=">>),
                AppendCall(node, <<")", ";">>)>>)

\* translateDecl without the test of the parent.
translateDecl_AnyDepth(node, ancestors, st) == TRUE

\* `var` is translated wherever it is; `let` and `const` only in the top
\* level block.
translateDecl(node, ancestors, st) ==
    node.kind = "var" \/ ancestors[Len(ancestors) - 1] = st.body

\* The editor calls that translate one declaration.
TranslationCalls(node) ==
    LET decls == Field(node, "declarations") IN
    <<ReplaceCall(node.start, node.start + Len(KindText(node.kind)) + 1,
                  <<"v", "o", "i", "d", " ", "(">>)>>
    \o Flatten([i \in 1..Len(decls) |->
         IF Field(decls[i], "init") # <<>>
         THEN <<PrependCall(decls[i], <<"(">>), AppendCall(decls[i], <<")">>)>>
         ELSE <<PrependCall(decls[i], <<"(">>),
                AppendCall(decls[i], <<"=", " ", "u", "n", "d", "e", "f", "i", "n", "e", "d", ")">>)>>])
    \o <<AppendCall(decls[Len(decls)], <<")">>)>>

evalScopeVisitors_VariableDeclaration(node, st0, ancestors) ==
    IF Len(ancestors) < 2 THEN [st0 EXCEPT !.ok = FALSE]
    ELSE
    LET translate == translateDecl(node, ancestors, st0)
        st1 == walkBase(node, [st0 EXCEPT !.translating = translate], ancestors, "scope")
        st2 == [st1 EXCEPT !.translating = FALSE]
    IN  IF ~translate THEN st2 ELSE Calls(st2, TranslationCalls(node))

evalScopeVisitors_VariableDeclarator(node, st0, ancestors) ==
    LET st == walkBase(node, st0, ancestors, "scope")
        id == Field(node, "id")[1]
    IN  IF ~st.translating THEN st
        ELSE IF id.type = "Identifier" THEN Call(st, PrependCall(id, GlobalDot))
        ELSE st

evalScopeVisitors_ObjectPattern(node, st0, ancestors) ==
    LET st == walkBase(node, st0, ancestors, "scope")
        ps == Field(node, "properties")
    IN  IF ~st.translating THEN st
        ELSE Calls(st, Flatten([i \in 1..Len(ps) |->
               LET value == Field(ps[i], "value")[1] IN
               IF ps[i].kind = "shorthand"
               THEN <<AppendCall(value, <<":">> \o GlobalDot \o value.name)>>
               ELSE IF value.type = "Identifier" THEN <<PrependCall(value, GlobalDot)>>
               ELSE <<>>]))

evalScopeVisitors_ArrayPattern(node, st0, ancestors) ==
    LET st == walkBase(node, st0, ancestors, "scope")
        es == Field(node, "elements")
    IN  IF ~st.translating THEN st
        ELSE Calls(st, Flatten([i \in 1..Len(es) |->
               IF es[i].type = "Identifier" THEN <<PrependCall(es[i], GlobalDot)>> ELSE <<>>]))

\* ScopePassPrunes without the FunctionExpression entry.
ScopePassPrunes_Expressions(type) ==
    type \in {"ArrowFunctionExpression", "MethodDefinition"}

\* Don't do any translation inside function (etc.) bodies.
ScopePassPrunes(type) ==
    type \in {"FunctionExpression", "ArrowFunctionExpression", "MethodDefinition"}

evalScopeVisitors(node, st, ancestors) ==
    CASE node.type = "ClassDeclaration" -> evalScopeVisitors_ClassDeclaration(node, st, ancestors)
      [] node.type = "FunctionDeclaration" -> evalScopeVisitors_FunctionDeclaration(node, st)
      [] node.type = "VariableDeclaration" ->
           evalScopeVisitors_VariableDeclaration(node, st, ancestors)
      [] node.type = "VariableDeclarator" ->
           evalScopeVisitors_VariableDeclarator(node, st, ancestors)
      [] node.type = "ObjectPattern" -> evalScopeVisitors_ObjectPattern(node, st, ancestors)
      [] node.type = "ArrayPattern" -> evalScopeVisitors_ArrayPattern(node, st, ancestors)
      [] ScopePassPrunes(node.type) -> noop(node, st)
      [] OTHER -> walkBase(node, st, ancestors, "scope")

\* walk.recursive's c(node, st, override): the visitor registered for the
\* override kind, or for the node's type.  In the scope pass every visitor is
\* wrapped and is given the ancestor chain.
c(node, ov, st, ancestors, pass) ==
    IF ov = "stop" THEN st
    ELSE IF pass = "import"
    THEN IF ov # "" THEN c(node, Redispatch(node, ov), st, ancestors, pass)
         ELSE importVisitors(node, st, ancestors)
    ELSE LET new == isNew(node, st.stack)
             chain == AncestorsAt(node, st.stack)
             st1 == Visit(node, ov, st, chain)
             st2 == IF ov # "" THEN c(node, Redispatch(node, ov), st1, chain, pass)
                    ELSE evalScopeVisitors(node, st1, chain)
         IN  PopAncestors(new, st2)

walkRecursive(body) == c(body, "", WalkState(body), <<>>, "import")

walkRecursiveWithAncestors(body) == c(body, "", WalkState(body), <<>>, "scope")

\* ReturnCalls looking at the first statement instead of the last.
ReturnCalls_First(body) ==
    LET stmts == Field(body, "body") IN
    IF Len(stmts) > 0 /\ Head(stmts).type = "ExpressionStatement"
    THEN <<PrependCall(Head(stmts), <<"r", "e", "t", "u", "r", "n", " ", "(">>),
           AppendCall(Field(Head(stmts), "expression")[1], <<")">>)>>
    ELSE <<>>

\* If the last statement is an expression, turn it into a return statement.
ReturnCalls(body) ==
    LET stmts == Field(body, "body") IN
    IF Len(stmts) > 0 /\ Last(stmts).type = "ExpressionStatement"
    THEN <<PrependCall(Last(stmts), <<"r", "e", "t", "u", "r", "n", " ", "(">>),
           AppendCall(Field(Last(stmts), "expression")[1], <<")">>)>>
    ELSE <<>>

\* `(async (${globalVar}, ${importFn}, console) => {\n${src}\n})`
Wrapped(s) == WrapOpen \o WrapHead \o <<"{", "\n">> \o s \o <<"\n", "}">> \o WrapClose

\* ------------------------------------------------------------ transpile
NoShape == <<>>
Idle == [kind |-> "idle", shape |-> <<>>]

Init ==
    /\ pc = "start"
    /\ cell \in Cells
    /\ src = CellText(cell)
    /\ parsed = <<>>
    /\ ast = NoNode
    /\ index = <<>>
    /\ pending = <<>>
    /\ out = <<>>
    /\ dotThis = NoShape /\ dotX = NoShape /\ dotResult = Idle
    /\ nEdits = 0 /\ other = <<>>

\* Wrap code in async function.
Wrap ==
    /\ pc = "start"
    /\ src' = Wrapped(src)
    /\ pc' = "wrapped"
    /\ UNCHANGED <<cell, parsed, ast, index, pending, out, dvars, nEdits, other>>

\* edit = new SourceEditor(src)
NewEditor ==
    /\ pc = "wrapped"
    /\ index' = NewSourceEditor(src)
    /\ pc' = "editor"
    /\ UNCHANGED <<cell, src, parsed, ast, pending, out, dvars, nEdits, other>>

\* Parse, and walk the body with importVisitors; the editor calls the walk
\* makes are then taken one at a time.
ImportPass ==
    /\ pc = "editor"
    /\ LET p == parseAsyncWrapped(src, cell) IN
       IF ~p.ok
       THEN /\ pc' = "syntaxError"
            /\ UNCHANGED <<parsed, ast, pending>>
       ELSE /\ parsed' = src
            /\ ast' = p.body
            /\ pending' = walkRecursive(p.body).calls
            /\ pc' = "imports"
    /\ UNCHANGED <<cell, src, index, out, dvars, nEdits, other>>

Editing == pc \in {"imports", "scope", "return"} /\ pending # <<>>

\* An offset outside the index: index[start] is undefined, a TypeError.
EditorCall(op) ==
    /\ Editing
    /\ Head(pending).op = op
    /\ IF Addressed(Head(pending)) \in 0..(Len(index) - 1)
       THEN /\ index' = ApplyCall(index, Head(pending))
            /\ pending' = Tail(pending)
            /\ pc' = pc
       ELSE /\ pc' = "typeError"
            /\ UNCHANGED <<index, pending>>
    /\ UNCHANGED <<cell, src, parsed, ast, out, dvars, nEdits, other>>

EditorReplace == EditorCall("replace")
EditorPrepend == EditorCall("prepend")
EditorAppend == EditorCall("append")

\* src = edit.stratify()
Stratify ==
    /\ pc = "imports" /\ pending = <<>>
    /\ index' = stratify(index)
    /\ src' = text(index')
    /\ pc' = "stratified"
    /\ UNCHANGED <<cell, parsed, ast, pending, out, dvars, nEdits, other>>

\* Parse again, and walk the body with evalScopeVisitors.
ScopePass ==
    /\ pc = "stratified"
    /\ LET p == parseAsyncWrapped(src, cell)
           st == walkRecursiveWithAncestors(p.body)
       IN  IF ~p.ok
           THEN /\ pc' = "syntaxError"
                /\ UNCHANGED <<parsed, ast, pending>>
           ELSE /\ parsed' = src
                /\ ast' = p.body
                /\ IF st.ok
                   THEN pending' = st.calls /\ pc' = "scope"
                   ELSE pending' = <<>> /\ pc' = "assertFailed"
    /\ UNCHANGED <<cell, src, index, out, dvars, nEdits, other>>

TrailingReturn ==
    /\ pc = "scope" /\ pending = <<>>
    /\ pending' = ReturnCalls(ast)
    /\ pc' = "return"
    /\ UNCHANGED <<cell, src, parsed, ast, index, out, dvars, nEdits, other>>

\* src = edit.text(); return src
Finish ==
    /\ pc = "return" /\ pending = <<>>
    /\ src' = text(index)
    /\ out' = text(index)
    /\ pc' = "done"
    /\ UNCHANGED <<cell, parsed, ast, index, pending, dvars, nEdits, other>>

Next ==
    \/ Wrap
    \/ NewEditor
    \/ ImportPass
    \/ EditorReplace
    \/ EditorPrepend
    \/ EditorAppend
    \/ Stratify
    \/ ScopePass
    \/ TrailingReturn
    \/ Finish

Spec == Init /\ [][Next]_vars

\* ------------------------------------------------- the editor on its own
\* Any sequence of SourceEditor calls with plain strings, on any short source.
MaxSrcLen == 2
MaxEdits == 2

SrcChars == {"a", "b"}
InsertedChars == {"X", "Y"}
InsertedStrings == {<<>>, <<"X">>, <<"X", "Y">>}

RECURSIVE StringsOfLen(_)
StringsOfLen(n) ==
    IF n = 0 THEN {<<>>}
    ELSE {<<ch>> \o s : ch \in SrcChars, s \in StringsOfLen(n - 1)}

InitEdit ==
    /\ pc = "edit"
    /\ src \in UNION {StringsOfLen(n) : n \in 0..MaxSrcLen}
    /\ index = NewSourceEditor(src)
    /\ nEdits = 0 /\ other = <<>>
    /\ cell = <<>> /\ parsed = <<>> /\ ast = NoNode /\ pending = <<>> /\ out = <<>>
    /\ dotThis = NoShape /\ dotX = NoShape /\ dotResult = Idle

EditStep(ix) ==
    /\ pc = "edit"
    /\ nEdits < MaxEdits
    /\ index' = ix
    /\ nEdits' = nEdits + 1
    /\ UNCHANGED <<pc, cell, src, parsed, ast, pending, out, dvars, other>>

EditReplace ==
    \E start \in 0..(Len(index) - 1), str \in InsertedStrings :
      \E end \in start..Len(index) :
        EditStep(SourceEditorReplace(index, start, end, str))

EditPrepend ==
    \E start \in 0..(Len(index) - 1), str \in InsertedStrings :
        EditStep(SourceEditorPrepend(index, start, str))

EditAppend ==
    \E end \in 1..Len(index), str \in InsertedStrings :
        EditStep(SourceEditorAppend(index, end, str))

NextEdit == EditReplace \/ EditPrepend \/ EditAppend

SpecEdit == InitEdit /\ [][NextEdit]_vars

\* --------------------------------------------- two edits, in either order
\* Two editors on the same source are given the same two calls, one in each
\* order.  The calls are computed from the same parse: replace(start, end,
\* str) with start <= end, and prepend or append of a node, whose range is
\* never empty; at most one of the two has an empty range.
PairStrings == {<<>>, <<"X">>}

PairCalls(n) ==
    {ReplaceCall(start, end, str) :
       start \in 0..(n - 1), end \in 0..n, str \in PairStrings}
    \cup {PrependCall([start |-> start, end |-> end], str) :
            start \in 0..(n - 1), end \in 1..n, str \in PairStrings}
    \cup {AppendCall([start |-> start, end |-> end], str) :
            start \in 0..(n - 1), end \in 1..n, str \in PairStrings}

WellFormed(e) == IF e.op = "replace" THEN e.a <= e.b ELSE e.a < e.b

\* The half-open ranges [a, b) of two calls have no offset in common.
Overlap(e, f) == \E o \in e.a..(e.b - 1) : o \in f.a..(f.b - 1)

InitPair ==
    /\ pc = "pair"
    /\ src \in UNION {StringsOfLen(n) : n \in 1..MaxSrcLen}
    /\ index = NewSourceEditor(src)
    /\ other = NewSourceEditor(src)
    /\ \E e, f \in {g \in PairCalls(Len(src)) : WellFormed(g)} :
         /\ ~Overlap(e, f)
         /\ e.a < e.b \/ f.a < f.b
         /\ pending = <<e, [f EXCEPT !.str = IF @ = <<>> THEN @ ELSE <<"Y">>]>>
    /\ nEdits = 0
    /\ cell = <<>> /\ parsed = <<>> /\ ast = NoNode /\ out = <<>>
    /\ dotThis = NoShape /\ dotX = NoShape /\ dotResult = Idle

PairStep(mine, theirs) ==
    /\ pc = "pair"
    /\ index' = ApplyCall(index, mine)
    /\ other' = ApplyCall(other, theirs)
    /\ nEdits' = nEdits + 1
    /\ UNCHANGED <<pc, cell, src, parsed, ast, pending, out, dvars>>

\* One editor makes the first call while the other makes the second.
PairFirst == nEdits = 0 /\ PairStep(pending[1], pending[2])

\* Each editor makes the call it has not made yet.
PairSecond == nEdits = 1 /\ PairStep(pending[2], pending[1])

NextPair == PairFirst \/ PairSecond

SpecPair == InitPair /\ [][NextPair]_vars

\* ------------------------------------------------------------ Tensor.dot
MaxRank == 3
MaxDim == 2

RECURSIVE ShapesOfRank(_)
ShapesOfRank(n) ==
    IF n = 0 THEN {<<>>}
    ELSE {<<d>> \o s : d \in 1..MaxDim, s \in ShapesOfRank(n - 1)}

Shapes == UNION {ShapesOfRank(n) : n \in 0..MaxRank}

\* shape[i] of the code, i from 0; undefined (here 0, no dimension is 0)
\* outside the shape.
Dim(shape, i) == IF i \in 0..(Len(shape) - 1) THEN shape[i + 1] ELSE 0

\* dot() on a receiver of shape `this` and an argument of shape `xx`: the
\* first assert() that fails, else the throw, else the shape handed to
\* left.matmul(right).reshape().
dot(this, xx) ==
    LET rank == Len(this)
        xrank == Len(xx)
        leftAssert == rank = 1 /\ Dim(this, 0) # Dim(xx, 0)
        rightAssert == xrank = 1 /\ Dim(this, rank - 1) # Dim(xx, 0)
        lShape == IF rank = 2 THEN <<this[1]>> ELSE <<>>
        rShape == IF xrank = 2 THEN <<xx[xrank]>> ELSE <<>>
    IN  IF leftAssert \/ rightAssert THEN [kind |-> "assertion", shape |-> <<>>]
        ELSE IF rank > 2 \/ xrank > 2 THEN [kind |-> "notImplemented", shape |-> <<>>]
        ELSE [kind |-> "matmul", shape |-> lShape \o rShape]

InitDot ==
    /\ pc = "dot"
    /\ dotThis \in Shapes
    /\ dotX \in Shapes
    /\ dotResult = [kind |-> "pending", shape |-> <<>>]
    /\ cell = <<>> /\ src = <<>> /\ parsed = <<>> /\ ast = NoNode /\ index = <<>>
    /\ pending = <<>> /\ out = <<>> /\ nEdits = 0 /\ other = <<>>

Dot ==
    /\ pc = "dot"
    /\ dotResult.kind = "pending"
    /\ dotResult' = dot(dotThis, dotX)
    /\ UNCHANGED <<tvars, dotThis, dotX, nEdits, other>>

NextDot == Dot

SpecDot == InitDot /\ [][NextDot]_vars

\* ================================================================ claims
\* --- what the claims speak of
\* Every node under `node`, with its syntactic parent and whether it lies in
\* the body of a function, arrow function or method.
FunctionTypes == {"FunctionDeclaration", "FunctionExpression", "ArrowFunctionExpression"}

RECURSIVE NodesUnder(_, _, _)
NodesUnder(node, parent, inFn) ==
    {[type |-> node.type, kind |-> node.kind, name |-> node.name,
      start |-> node.start, end |-> node.end,
      parent |-> NodeId(parent), parentType |-> parent.type, inFn |-> inFn]}
    \cup UNION {NodesUnder(node.kids[i].node, node, inFn \/ node.type \in FunctionTypes) :
                  i \in 1..Len(node.kids)}

AstNodes == NodesUnder(ast, NoNode, FALSE)

\* The characters index[offset] of the code holds now.
CharsAt(offset) == [i \in 1..Len(index[offset + 1]) |-> index[offset + 1][i].char]

\* No edit has touched index[offset] since the parse.
Untouched(offset) == CharsAt(offset) = <<parsed[offset + 1]>>

\* The text the index holds for the span [start, end).
SpanText(start, end) == Flatten([i \in 1..(end - start) |-> CharsAt(start + i - 1)])

Occurrences(s, p) ==
    Cardinality({i \in 1..(Len(s) - Len(p) + 1) : SubSeq(s, i, i + Len(p) - 1) = p})

\* The index is the one the offsets of ast address.
Addressable == pc \in {"imports", "scope", "return", "done"}

\* The scope pass has made all its editor calls.
ScopeDone == (pc = "scope" /\ pending = <<>>) \/ pc \in {"return", "done"}

VoidOpen == <<"v", "o", "i", "d", " ", "(">>

\* C1: in the scope pass a let, const or class declaration outside function
\* bodies is rewritten exactly when its parent is the wrapper's body, and a
\* var declaration is rewritten at any nesting depth; a declaration that is
\* not rewritten is left as it was.
C1_TopLevelOnly ==
    ScopeDone =>
      \A e \in AstNodes :
        (e.type \in {"VariableDeclaration", "ClassDeclaration"} /\ ~e.inFn) =>
          LET should == (e.type = "VariableDeclaration" /\ e.kind = "var")
                        \/ e.parent = NodeId(ast)
              opening == IF e.type = "ClassDeclaration" THEN GlobalDot ELSE VoidOpen
          IN  IF should THEN IsPrefix(opening, CharsAt(e.start))
              ELSE \A o \in e.start..(e.end - 1) : Untouched(o)

\* A var declaration nested in a block has been rewritten.
C1_Witness ==
    /\ pc = "done"
    /\ \E e \in AstNodes :
         /\ e.type = "VariableDeclaration" /\ e.kind = "var" /\ ~e.inFn
         /\ e.parent # NodeId(ast)
         /\ IsPrefix(VoidOpen, CharsAt(e.start))

\* The bodies of the functions, arrow functions and methods of the parse.
FunctionBodies == {e \in AstNodes : e.type = "BlockStatement" /\ e.parentType \in FunctionTypes}

InnerText == TextOf(InnerBody)

\* C2: neither pass touches a character strictly inside the body of a
\* function declaration, function expression, arrow function or method, and
\* every such body of the cell is spelt unchanged in the output.
C2_BodiesUntouched ==
    /\ Addressable =>
         \A e \in FunctionBodies : \A o \in (e.start + 1)..(e.end - 2) : Untouched(o)
    /\ pc = "done" =>
         Occurrences(out, InnerText) = Occurrences(Wrapped(CellText(cell)), InnerText)

\* A function declaration nested in a block was rewritten around its body.
C2_Witness ==
    /\ pc = "done"
    /\ \E e \in FunctionBodies :
         /\ e.parentType = "FunctionDeclaration"
         /\ e.parent[2] > ast.start + 2
         /\ IsPrefix(VoidOpen, CharsAt(e.parent[2]))
         /\ e.end - e.start > 2

\* The kinds of statement that are expression statements when the scope
\* pass parses them.
ExpressionLeaves == {"exprId", "exprFn", "exprArrow", "await", "awaitEat"}

LastIsExpression == cell # <<>> /\ ImportRewritten(Last(cell)).k \in ExpressionLeaves

ReturnOpen == <<"r", "e", "t", "u", "r", "n", " ", "(">>

\* C3: `return (` and `)` are put around the expression of the body's last
\* statement exactly when that statement is an expression statement (of the
\* body as the scope pass parsed it); otherwise no return is inserted.
C3_TrailingReturn ==
    pc = "done" =>
      IF LastIsExpression
      THEN LET last == Last(Field(ast, "body"))
               expr == Field(last, "expression")[1]
           IN  /\ last.type = "ExpressionStatement"
               /\ IsPrefix(ReturnOpen \o <<parsed[last.start + 1]>>, CharsAt(last.start))
               /\ IsSuffix(<<parsed[expr.end], ")">>, CharsAt(expr.end - 1))
               /\ Occurrences(out, <<"r", "e", "t", "u", "r", "n">>) = 1
      ELSE Occurrences(out, <<"r", "e", "t", "u", "r", "n">>) = 0

\* A cell of two statements whose last is an expression statement.
C3_Witness ==
    /\ pc = "done" /\ Len(cell) = 2 /\ LastIsExpression
    /\ Contains(out, ReturnOpen)

\* The import declarations the import pass reaches.
Imports == {e \in AstNodes : e.type = "ImportDeclaration" /\ ~e.inFn}

ChildrenOf(e) == {k \in AstNodes : k.parent = <<e.type, e.start, e.end>>}

SpecifierTypes == {"ImportSpecifier", "ImportDefaultSpecifier", "ImportNamespaceSpecifier"}

ImportDone == pc = "imports" /\ pending = <<>>

AwaitImportText == TextOf(AwaitImport)

\* C4: the import pass rewrites exactly the span [node.start, node.end) of
\* each import declaration, with or without a semicolon: into
\* `var {...} = {_:await __import("m")};` with specifiers,
\* `await __import("m");` without, every character outside the spans
\* unchanged.
C4_ImportSpanOnly ==
    ImportDone =>
      /\ \A o \in 0..(Len(index) - 1) :
           (\A e \in Imports : o < e.start \/ o >= e.end) => Untouched(o)
      /\ \A e \in Imports :
           LET t == SpanText(e.start, e.end) IN
           IF \E k \in ChildrenOf(e) : k.type \in SpecifierTypes
           THEN /\ IsPrefix(<<"v", "a", "r", " ", "{">>, t)
                /\ IsSuffix(<<"}", " ", "=", " ", "{", "_", ":">> \o AwaitImportText
                            \o <<"}", ";">>, t)
           ELSE t = AwaitImportText \o <<";">>

Count(s, ch) == Cardinality({i \in 1..Len(s) : s[i] = ch})

\* C5: around a class declaration at top level the scope pass writes
\* `__global.<name> = (` before and `);` after: one opening and one closing
\* parenthesis around the unchanged class text.
C5_ClassParenthesised ==
    ScopeDone =>
      \A e \in AstNodes :
        (e.type = "ClassDeclaration" /\ e.parent = NodeId(ast)) =>
          LET first == CharsAt(e.start)
              before == SubSeq(first, 1, Len(first) - 1)
              after == Tail(CharsAt(e.end - 1))
          IN  /\ IsPrefix(GlobalDot \o e.name, before)
              /\ Count(before \o after, "(") = 1
              /\ Count(before \o after, ")") = 1
              /\ \A o \in (e.start + 1)..(e.end - 2) : Untouched(o)

Translated(e) ==
    /\ e.type = "VariableDeclaration" /\ ~e.inFn
    /\ e.kind = "var" \/ e.parent = NodeId(ast)

Range(s) == {s[i] : i \in 1..Len(s)}

\* C6: translating a declaration replaces the keyword by `void (` and
\* deletes no character of any declarator, whatever stands between the
\* keyword and the first declarator; every declarator is wrapped in
\* parentheses, and one more `)` follows the last declarator only.
C6_DeclaratorsKept ==
    ScopeDone =>
      \A e \in {n \in AstNodes : Translated(n)} :
        /\ IsPrefix(VoidOpen, CharsAt(e.start))
        /\ \A d \in {k \in ChildrenOf(e) : k.type = "VariableDeclarator"} :
             /\ \A o \in d.start..(d.end - 1) : parsed[o + 1] \in Range(CharsAt(o))
             /\ Head(CharsAt(d.start)) = "("
             /\ Last(CharsAt(d.end - 1)) = ")"
             /\ IsSuffix(<<")", ")">>, CharsAt(d.end - 1))
                  <=> (\A k \in ChildrenOf(e) : k.end <= d.end)

\* Cells with no import and no declaration outside function bodies.
RECURSIVE NoDeclarations(_)
NoDeclarations(d) ==
    IF d.k \in Containers THEN NoDeclarations(d.sub[1])
    ELSE d.k \in {"exprId", "exprFn", "exprArrow"}

PlainCell == \A i \in 1..Len(cell) : NoDeclarations(cell[i])

\* The wrapped cell with `return (` and `)` around the expression of a
\* trailing expression statement.
WrappedWithReturn(cl) ==
    IF cl = <<>> \/ Last(cl).k \in Containers THEN Wrapped(CellText(cl))
    ELSE LET s == StmtSyn(Last(cl))
             lastText == ReturnOpen \o s.parts[1].text \o TextOf(s.parts[2].sub[1])
                         \o <<")">> \o s.parts[3].text
         IN  Wrapped(JoinLines([i \in 1..Len(cl) |->
                 IF i = Len(cl) THEN lastText ELSE TextOf(StmtSyn(cl[i]))]))

\* C7: for a cell with no import and no declaration outside function
\* bodies, the import pass and stratify() leave the wrapped text as it is
\* and the output differs from it by the trailing return only.
C7_IdentityButReturn ==
    PlainCell =>
      /\ pc = "stratified" => src = Wrapped(CellText(cell))
      /\ pc = "done" => out = WrappedWithReturn(cell)

\* A plain cell with a function expression and a nested block is done.
C7_Witness ==
    /\ pc = "done" /\ PlainCell
    /\ \E i \in 1..Len(cell) : cell[i].k \in Containers /\ cell[i].sub[1].k = "exprFn"
    /\ out = Wrapped(CellText(cell))

C9_InsertedNull ==
    pc = "edit" =>
      \A i \in 1..Len(GetSource(index)) :
        LET ch == GetSource(index)[i] IN
        IF ch.char \in InsertedChars THEN ch.pos = Null
        ELSE ch.pos \in 0..(Len(src) - 1) /\ src[ch.pos + 1] = ch.char

\* C10: dot with a receiver or an argument of rank greater than 2 always
\* ends in the "not yet implemented" error.
C10_RankError ==
    (pc = "dot" /\ dotResult.kind # "pending" /\ (Len(dotThis) > 2 \/ Len(dotX) > 2))
      => dotResult.kind = "notImplemented"

\* The text the scope pass writes before a function declaration.
FunctionOpen(e) == VoidOpen \o GlobalDot \o e.name \o <<"=">>

RewrittenFunction(e) ==
    /\ e.type = "FunctionDeclaration"
    /\ IsPrefix(FunctionOpen(e), CharsAt(e.start))
    /\ IsSuffix(<<")", ";">>, CharsAt(e.end - 1))

RECURSIVE PathsUnder(_, _)
PathsUnder(node, above) ==
    LET path == Append(above, NodeId(node)) IN
    {[node |-> NodeId(node), path |-> path]}
    \cup UNION {PathsUnder(node.kids[i].node, path) : i \in 1..Len(node.kids)}

PathIn(paths, id) == (CHOOSE e \in paths : e.node = id).path

\* The nodes of a path that no visitor is invoked for: the ClassBody
\* between a class and its methods, and the Property between an object
\* pattern and the pattern it binds.
SteppedOver(path, i) ==
    \/ path[i][1] = "ClassBody"
    \/ path[i][1] = "Property" /\ i > 1 /\ path[i - 1][1] = "ObjectPattern"

WalkedPath(path) ==
    LET keep == SelectSeq([i \in 1..Len(path) |-> i], LAMBDA i : ~SteppedOver(path, i))
    IN  [j \in 1..Len(keep) |-> path[keep[j]]]

NoRepeats(chain) == \A i, j \in 1..Len(chain) : chain[i] = chain[j] => i = j

\* The walk of the scope pass has returned.
ScopeWalked == pc = "scope"

\* C12 as stated: at every visitor invocation of walkRecursiveWithAncestors
\* the chain is the whole syntactic path from the walk root to the visited
\* node, so its second-to-last element is the node's syntactic parent, and
\* the chain is empty when the walk returns.
C12_ChainIsSyntacticPath ==
    ScopeWalked =>
      LET walk == walkRecursiveWithAncestors(ast)
          paths == PathsUnder(ast, <<>>)
      IN  /\ \A i \in 1..Len(walk.visits) :
                walk.visits[i].chain = PathIn(paths, walk.visits[i].node)
          /\ walk.stack = <<>>

\* C12 amended: at every visitor invocation the chain is the syntactic path
\* from the walk root to the visited node less the nodes the walk steps over
\* without a visitor (a ClassBody, a Property of an object pattern), with
\* each node once; its last element is the visited node and its
\* second-to-last is the syntactic parent unless the walk stepped over
\* that parent, in which case it is the parent's parent; the chain is empty
\* when the walk returns.
C12_ChainIsWalkedPath ==
    ScopeWalked =>
      LET walk == walkRecursiveWithAncestors(ast)
          paths == PathsUnder(ast, <<>>)
      IN  /\ \A i \in 1..Len(walk.visits) :
                LET v == walk.visits[i]
                    path == PathIn(paths, v.node)
                    n == Len(path)
                    m == Len(v.chain)
                IN  /\ v.chain = WalkedPath(path)
                    /\ NoRepeats(v.chain)
                    /\ v.chain[1] = NodeId(ast)
                    /\ v.chain[m] = v.node
                    /\ n >= 2 =>
                         /\ m >= 2
                         /\ v.chain[m - 1] =
                              IF SteppedOver(path, n - 1) THEN path[n - 2] ELSE path[n - 1]
          /\ walk.stack = <<>>

\* The walk has visited a method under its class, stepping over the class
\* body, and has handed a statement on to the visitor of its own type
\* without pushing it again.
C12_Witness ==
    /\ ScopeWalked
    /\ LET walk == walkRecursiveWithAncestors(ast) IN
       /\ \E i \in 1..Len(walk.visits) :
            /\ walk.visits[i].node[1] = "MethodDefinition"
            /\ Len(walk.visits[i].chain) = 3
       /\ \E i \in 1..(Len(walk.visits) - 1) :
            /\ walk.visits[i].ov = "Statement"
            /\ walk.visits[i + 1].ov = ""
            /\ walk.visits[i + 1].node = walk.visits[i].node
            /\ walk.visits[i + 1].chain = walk.visits[i].chain

\* C13: two editor calls computed from the same parse whose half-open
\* ranges do not overlap give the same text in either order, a replace with
\* an empty range included.
C13_OrderIndependent ==
    (pc = "pair" /\ nEdits = 2) => text(index) = text(other)

====
